---- MODULE Spec2Model ----
(***************************************************************************)
(* Storyboard Generator: the panel record, the storyboard list with its    *)
(* editor, panel list and shot list, project save/open, and the two        *)
(* renderers (PDF export and on-screen preview).                           *)
(*                                                                         *)
(* Strings that the code orders or parses (scene_number, setup_number,     *)
(* shot_number) are sequences of character codes; strings that the code    *)
(* only copies and compares for equality are TLA+ strings.                 *)
(***************************************************************************)
EXTENDS Integers, Sequences, FiniteSets, TLC

VARIABLES
    objs,          \* the Panel objects alive: handle -> panel record
    panels,        \* StoryboardApp.panels: sequence of handles
    elements,      \* the flowables export_storyboard last handed to doc.build
                   \* (empty before the first export)
    pdf_preview,   \* PDFPreview: all_panels, total_pages, current_page, canvas
    str_hash,      \* hash() of one-character strings in the running process
    pdf_files,     \* the documents the first-generation exporter has written,
                   \* by output path
    messagebox,    \* the message box the last handler showed (None if none)
    panel_editor,  \* PanelEditor: current_panel, the widgets, the auto-save timer
    panels_list,   \* PanelsList: panels, selected_index
    shot_list,     \* ShotList: the two filter boxes and the table
    current_project_path,   \* StoryboardApp.current_project_path
    modified,      \* StoryboardApp.modified
    project_files, \* the project files on disk, by path
    asked,         \* the last handler asked the question about unsaved changes
    running,       \* root.mainloop() has not been left by root.quit()
    calc           \* the last call of PDFPreview._calc_text_height: its
                   \* arguments and, once it has returned, its result

colourVars == <<str_hash, pdf_files>>

appVars == <<panel_editor, panels_list, shot_list, current_project_path, modified,
             project_files, asked, running>>

vars == <<objs, panels, elements, pdf_preview, colourVars, messagebox, appVars, calc>>

None == "None"      \* Python's None where a string is expected
NoPanel == 0        \* Python's None where a Panel object is expected

-----------------------------------------------------------------------------
(* Python strings as sequences of character codes *)

Str_empty == <<>>
Str_1     == <<49>>
Str_2     == <<50>>
Str_10    == <<49, 48>>
Str_A     == <<65>>
Str_B     == <<66>>
Str_sup2  == <<178>>                                \* "\u00b2", superscript two
Str_copy  == <<40, 99, 111, 112, 121, 41>>          \* "(copy)"
Str_space_copy == <<32>> \o Str_copy               \* " (copy)"

\* the characters of Latin-1 that str.isdigit() accepts: the decimal digits
\* and the superscripts two, three and one
DigitChars == 48..57 \cup {178, 179, 185}

\* str.isdigit(): non-empty and every character a digit
isdigit(s) == Len(s) > 0 /\ \A i \in 1..Len(s) : s[i] \in DigitChars

\* int(s) raises ValueError unless s is made of decimal digits
int_ValueError(s) == Len(s) = 0 \/ \E i \in 1..Len(s) : s[i] \notin 48..57

\* int(s) for a string of decimal digits
RECURSIVE int(_)
int(s) == IF s = <<>> THEN 0
          ELSE 10 * int(SubSeq(s, 1, Len(s) - 1)) + (s[Len(s)] - 48)

\* a < b for two Python strings (lexicographic by code point)
RECURSIVE StrLess(_, _)
StrLess(a, b) ==
    IF b = <<>> THEN FALSE
    ELSE IF a = <<>> THEN TRUE
    ELSE IF a[1] # b[1] THEN a[1] < b[1]
    ELSE StrLess(Tail(a), Tail(b))

\* A sort key is a tuple of components, each a sequence of numbers; Python
\* compares tuples by their first unequal component.
RECURSIVE KeyLess(_, _)
KeyLess(k1, k2) ==
    IF k1 = <<>> \/ k2 = <<>> THEN FALSE
    ELSE IF k1[1] # k2[1] THEN StrLess(k1[1], k2[1])
    ELSE KeyLess(Tail(k1), Tail(k2))

\* int(s) if s.isdigit() else float('inf'), as a key component:
\* <<0, n>> sorts before <<1>>, and <<0, m>> before <<0, n>> iff m < n.
NumericOrInf(s) == IF isdigit(s) THEN <<0, int(s)>> ELSE <<1>>

\* sorted(seq, key=...): the stable sort. keys[i] is the key of the i-th
\* element; the result is the sequence of positions in sorted order.
RECURSIVE InsertStable(_, _, _)
InsertStable(done, j, keys) ==
    IF done = <<>> THEN <<j>>
    ELSE IF KeyLess(keys[j], keys[done[Len(done)]])
         THEN Append(InsertStable(SubSeq(done, 1, Len(done) - 1), j, keys),
                     done[Len(done)])
         ELSE Append(done, j)

RECURSIVE SortPositions(_, _)
SortPositions(keys, n) ==
    IF n = 0 THEN <<>>
    ELSE InsertStable(SortPositions(keys, n - 1), n, keys)

sorted(seq, keys) ==
    LET perm == SortPositions(keys, Len(seq))
    IN  [i \in 1..Len(seq) |-> seq[perm[i]]]

\* the positions of seq whose element satisfies the test, in order
RECURSIVE SelectIdx(_, _)
SelectIdx(flags, n) ==
    IF n = 0 THEN <<>>
    ELSE IF flags[n] THEN Append(SelectIdx(flags, n - 1), n)
    ELSE SelectIdx(flags, n - 1)

Range(f) == {f[i] : i \in DOMAIN f}

-----------------------------------------------------------------------------
(* Colours.  A reportlab colour is an object with an rgb() triple; a Tk     *)
(* colour is a Python string "#rrggbb", held as [str |-> character codes]   *)
(* so that hasattr(color, 'rgb') can tell the two apart.  Channel values    *)
(* are bytes: reportlab stores b/255 and int((b/255)*255) = b for every     *)
(* byte b.                                                                  *)

Color(r, g, b) == [rgb |-> <<r, g, b>>]

blue          == Color(0, 0, 255)
darkgreen     == Color(0, 100, 0)
orange        == Color(255, 165, 0)
purple        == Color(128, 0, 128)
darkred       == Color(139, 0, 0)
brown         == Color(165, 42, 42)
darkslategray == Color(47, 79, 79)
gold          == Color(255, 215, 0)
cyan          == Color(0, 255, 255)
pink          == Color(255, 192, 203)
teal          == Color(0, 128, 128)
lavender      == Color(230, 230, 250)
lime          == Color(0, 255, 0)
lightblue     == Color(173, 216, 230)
plum          == Color(221, 160, 221)
rosybrown     == Color(188, 143, 143)
chocolate     == Color(210, 105, 30)
crimson       == Color(220, 20, 60)
lightgreen    == Color(144, 238, 144)
tomato        == Color(255, 99, 71)
magenta       == Color(255, 0, 255)
indigo        == Color(75, 0, 130)
darkkhaki     == Color(189, 183, 107)
lightsalmon   == Color(255, 160, 122)
yellow        == Color(255, 255, 0)
orchid        == Color(218, 112, 214)
gray          == Color(128, 128, 128)
green         == Color(0, 128, 0)
red           == Color(255, 0, 0)
darkgrey      == Color(169, 169, 169)

\* "0123456789abcdef"[n] as a character code (the format spec 02x)
HexDigit(n) == IF n < 10 THEN 48 + n ELSE 97 + (n - 10)
Hex02x(b)   == <<HexDigit(b \div 16), HexDigit(b % 16)>>

\* the value of a hexadecimal digit of either case, as Tk reads it
HexVal(c) == IF c \in 48..57 THEN c - 48
             ELSE IF c \in 65..70 THEN c - 55
             ELSE c - 87

\* the RGB triple Tk draws for a colour string "#rrggbb"
TkRGB(s) == << 16 * HexVal(s.str[2]) + HexVal(s.str[3]),
               16 * HexVal(s.str[4]) + HexVal(s.str[5]),
               16 * HexVal(s.str[6]) + HexVal(s.str[7]) >>

\* the RGB triple reportlab writes for a colour object
PdfRGB(color) == color.rgb

Tk_4CAF50 == [str |-> <<35, 52, 67, 65, 70, 53, 48>>]
Tk_F44336 == [str |-> <<35, 70, 52, 52, 51, 51, 54>>]
Tk_9C27B0 == [str |-> <<35, 57, 67, 50, 55, 66, 48>>]
Tk_2196F3 == [str |-> <<35, 50, 49, 57, 54, 70, 51>>]
Tk_FF9800 == [str |-> <<35, 70, 70, 57, 56, 48, 48>>]
Tk_795548 == [str |-> <<35, 55, 57, 53, 53, 52, 56>>]
Tk_555555 == [str |-> <<35, 53, 53, 53, 53, 53, 53>>]

\* dict.get(key, default) on a dict modelled as a function
DictGet(d, k, default) == IF k \in DOMAIN d THEN d[k] ELSE default

\* PDFExporter.camera_colors
Exporter_camera_colors ==
    [c \in {"Camera 1", "Camera 2", "Camera 3", "Camera 4", "Camera 5", "Camera 6"} |->
        CASE c = "Camera 1" -> darkgreen
          [] c = "Camera 2" -> darkred
          [] c = "Camera 3" -> purple
          [] c = "Camera 4" -> blue
          [] c = "Camera 5" -> orange
          [] c = "Camera 6" -> brown]

\* PDFPreview.camera_colors
Preview_camera_colors ==
    [c \in {"Camera 1", "Camera 2", "Camera 3", "Camera 4", "Camera 5", "Camera 6"} |->
        CASE c = "Camera 1" -> Tk_4CAF50
          [] c = "Camera 2" -> Tk_F44336
          [] c = "Camera 3" -> Tk_9C27B0
          [] c = "Camera 4" -> Tk_2196F3
          [] c = "Camera 5" -> Tk_FF9800
          [] c = "Camera 6" -> Tk_795548]

\* the shot letter colours "A".."Z", the same literal table in both classes
LetterColors ==
    << blue, darkgreen, orange, purple, darkred, brown, darkslategray, gold,
       cyan, pink, teal, lavender, lime, lightblue, plum, rosybrown,
       chocolate, crimson, lightgreen, tomato, magenta, indigo, darkkhaki,
       lightsalmon, yellow, orchid >>

\* PDFExporter.shot_colors, keyed by the one-character string
Exporter_shot_colors == [k \in {<<c>> : c \in 65..90} |-> LetterColors[k[1] - 64]]

\* PDFPreview.shot_colors
Preview_shot_colors == [k \in {<<c>> : c \in 65..90} |-> LetterColors[k[1] - 64]]

\* PDFPreview._color_to_hex
_color_to_hex(color) ==
    IF "rgb" \in DOMAIN color
    THEN [str |-> <<35>> \o Hex02x(color.rgb[1]) \o Hex02x(color.rgb[2])
                       \o Hex02x(color.rgb[3])]
    ELSE color

\* panel.shot_number[0] if panel.shot_number else ""
ShotLetter(panel) ==
    IF panel.shot_number # <<>> THEN <<panel.shot_number[1]>> ELSE <<>>

-----------------------------------------------------------------------------
(* storyboard_generator/panel.py *)

Absent == "Absent"       \* an attribute the object does not have (hasattr is False)

PanelAttrs ==
    {"id", "shot_number", "scene_number", "description", "notes", "camera",
     "lens", "size", "type", "move", "equip", "action", "bgd", "bgd_notes",
     "hair_makeup", "props", "vfx", "setup_number", "camera_name",
     "shot_time", "audio_notes", "subject", "image_path", "order"}

\* Panel.__init__ with the uuid the constructor drew
NewPanel(uuid) ==
    [ id |-> uuid, shot_number |-> Str_empty, scene_number |-> Str_1,
      description |-> "", notes |-> "", camera |-> "Camera 1", lens |-> "",
      size |-> "", type |-> "", move |-> "STATIC", equip |-> "STICKS",
      action |-> "", bgd |-> "No", bgd_notes |-> "", hair_makeup |-> "",
      props |-> "", vfx |-> "", setup_number |-> Str_1, camera_name |-> "",
      shot_time |-> "", audio_notes |-> "", subject |-> "",
      image_path |-> None, order |-> 0,
      hair_makeup_enabled |-> Absent, props_enabled |-> Absent,
      vfx_enabled |-> Absent ]

\* a to_dict that leaves 'subject' out of the dictionary
to_dict_without_subject(panel) ==
    [k \in (PanelAttrs \ {"subject"}) \cup {"last_modified"} |->
        IF k = "last_modified" THEN "now" ELSE panel[k]]

\* Panel.to_dict: the 24 serialised attributes and the time stamp
to_dict(panel) ==
    [k \in PanelAttrs \cup {"last_modified"} |->
        IF k = "last_modified" THEN "now" ELSE panel[k]]

\* the image files that exist on disk (no panel of the model has an image)
ImageFiles == {}

\* Panel.from_dict(data), uuid being the id the constructor drew
from_dict(data, uuid) ==
    LET path == DictGet(data, "image_path", None)
    IN  [ NewPanel(uuid) EXCEPT
            !.id           = DictGet(data, "id", uuid),
            !.shot_number  = DictGet(data, "shot_number", Str_empty),
            !.scene_number = DictGet(data, "scene_number", Str_1),
            !.description  = DictGet(data, "description", ""),
            !.notes        = DictGet(data, "notes", ""),
            !.camera       = DictGet(data, "camera", "Camera 1"),
            !.lens         = DictGet(data, "lens", ""),
            !.size         = DictGet(data, "size", ""),
            !.type         = DictGet(data, "type", ""),
            !.move         = DictGet(data, "move", "STATIC"),
            !.equip        = DictGet(data, "equip", "STICKS"),
            !.action       = DictGet(data, "action", ""),
            !.bgd          = DictGet(data, "bgd", "No"),
            !.bgd_notes    = DictGet(data, "bgd_notes", ""),
            !.hair_makeup  = DictGet(data, "hair_makeup", ""),
            !.props        = DictGet(data, "props", ""),
            !.vfx          = DictGet(data, "vfx", ""),
            !.setup_number = DictGet(data, "setup_number", Str_1),
            !.camera_name  = DictGet(data, "camera_name", ""),
            !.shot_time    = DictGet(data, "shot_time", ""),
            !.audio_notes  = DictGet(data, "audio_notes", ""),
            !.subject      = DictGet(data, "subject", ""),
            !.order        = DictGet(data, "order", 0),
            !.image_path   = IF path # None /\ path \in ImageFiles THEN path ELSE None ]

-----------------------------------------------------------------------------
(* storyboard_generator/pdf_exporter.py *)

PanelsPerGrid == 6

RECURSIVE Flatten(_)
Flatten(ss) == IF ss = <<>> THEN <<>> ELSE ss[1] \o Flatten(Tail(ss))

Min(a, b) == IF a < b THEN a ELSE b

\* the keys of scene_groups in insertion order: the scene numbers of the
\* list in order of first appearance
RECURSIVE SceneKeys(_, _)
SceneKeys(o, ps) ==
    IF ps = <<>> THEN <<>>
    ELSE LET rest == SceneKeys(o, SubSeq(ps, 1, Len(ps) - 1))
             s    == o[ps[Len(ps)]].scene_number
         IN  IF s \in Range(rest) THEN rest ELSE Append(rest, s)

\* scene_groups[scene_number] before the sort: the panels of the scene in
\* list order
GroupOf(o, ps, s) ==
    LET idx == SelectIdx([i \in 1..Len(ps) |-> o[ps[i]].scene_number = s], Len(ps))
    IN  [i \in 1..Len(idx) |-> ps[idx[i]]]

\* mutant of ShotKey: every panel gets the same key, so the scene is not sorted
ShotKey_constant(panel) == << Str_empty >>

\* key=lambda p: p.shot_number if p.shot_number else ""
ShotKey(panel) == << IF panel.shot_number # <<>> THEN panel.shot_number ELSE Str_empty >>

\* scene_groups[scene_number] after the sort within the scene
scene_groups(o, ps, s) ==
    LET g == GroupOf(o, ps, s)
    IN  sorted(g, [i \in 1..Len(g) |-> ShotKey(o[g[i]])])

\* key=lambda s: int(s) if s.isdigit() else float('inf')
SceneKey(s) == << NumericOrInf(s) >>

sorted_scenes(o, ps) ==
    LET ks == SceneKeys(o, ps)
    IN  sorted(ks, [i \in 1..Len(ks) |-> SceneKey(ks[i])])

\* mutant of panel_groups: the slices are scene_panels[i:i+5], one short
panel_groups_short(scene_panels) ==
    [g \in 1..((Len(scene_panels) + PanelsPerGrid - 1) \div PanelsPerGrid) |->
        SubSeq(scene_panels, PanelsPerGrid * (g - 1) + 1,
               Min(PanelsPerGrid * g - 1, Len(scene_panels)))]

\* [scene_panels[i:i+6] for i in range(0, len(scene_panels), 6)]
panel_groups(scene_panels) ==
    [g \in 1..((Len(scene_panels) + PanelsPerGrid - 1) \div PanelsPerGrid) |->
        SubSeq(scene_panels, PanelsPerGrid * (g - 1) + 1,
               Min(PanelsPerGrid * g, Len(scene_panels)))]

\* PDFExporter._create_panel_element: the panel table with its two colours
_create_panel_element(o, h) ==
    [ kind         |-> "Panel",
      panel        |-> h,
      shot_color   |-> DictGet(Exporter_shot_colors, ShotLetter(o[h]), gray),
      camera_color |-> DictGet(Exporter_camera_colors, o[h].camera, gray) ]

\* PDFExporter._create_empty_panel
_create_empty_panel == [kind |-> "Empty"]

\* the 3x2 grid of one group: the panel elements padded with empty panels
\* to 6, row1 = panel_elements[:3], row2 = panel_elements[3:6]
GridOf(o, group) ==
    LET panel_elements ==
            [c \in 1..(IF Len(group) < PanelsPerGrid THEN PanelsPerGrid ELSE Len(group)) |->
                IF c <= Len(group) THEN _create_panel_element(o, group[c])
                ELSE _create_empty_panel]
    IN  [ kind |-> "Grid",
          rows |-> << SubSeq(panel_elements, 1, 3), SubSeq(panel_elements, 4, 6) >> ]

\* the flowables of one scene: header, then per group the optional
\* "Page i of n" sub-header, the grid and a page break between grids
SceneElements(o, ps, s, isLast) ==
    LET groups == panel_groups(scene_groups(o, ps, s))
        n      == Len(groups)
        one(i) == (IF n > 1 THEN << [kind |-> "PageOf", i |-> i, n |-> n] >> ELSE <<>>)
                  \o << GridOf(o, groups[i]) >>
                  \o (IF i < n THEN << [kind |-> "PageBreak"] >> ELSE <<>>)
    IN  << [kind |-> "SceneHeader", scene |-> s] >>
        \o Flatten([i \in 1..n |-> one(i)])
        \o (IF ~isLast THEN << [kind |-> "PageBreak"] >> ELSE <<>>)

\* the sort key of a scene raises ValueError
SceneKey_ValueError(s) == isdigit(s) /\ int_ValueError(s)

\* export_storyboard raises before anything is handed to doc.build
export_storyboard_raises(o, ps) ==
    \E h \in Range(ps) : SceneKey_ValueError(o[h].scene_number)

\* PDFExporter.export_storyboard: the list handed to doc.build
export_storyboard(o, ps) ==
    LET ss == sorted_scenes(o, ps)
    IN  << [kind |-> "Title"], [kind |-> "Legend"] >>
        \o Flatten([k \in 1..Len(ss) |->
                      SceneElements(o, ps, ss[k], ss[k] = ss[Len(ss)])])

-----------------------------------------------------------------------------
(* storyboard_generator/pdf_preview.py *)

\* math.ceil(len(all_panels) / 6)
PreviewPages(n) == (n + PanelsPerGrid - 1) \div PanelsPerGrid

\* PDFPreview._draw_page: one canvas item per panel of the page, with the id
\* of the panel it is drawn for, its grid position (row = i // 3,
\* col = i % 3) and its two colours
_draw_page(o, shown, page_number) ==
    LET start_idx   == page_number * PanelsPerGrid
        end_idx     == Min(start_idx + PanelsPerGrid, Len(shown))
        page_panels == SubSeq(shown, start_idx + 1, end_idx)
    IN  [i \in 1..Len(page_panels) |->
            [ panel        |-> o[page_panels[i]].id,
              row          |-> (i - 1) \div 3,
              col          |-> (i - 1) % 3,
              shot_color   |-> _color_to_hex(
                                 DictGet(Preview_shot_colors,
                                         ShotLetter(o[page_panels[i]]), Tk_555555)),
              camera_color |-> DictGet(Preview_camera_colors,
                                       o[page_panels[i]].camera, Tk_555555) ]]

\* PDFPreview.__init__
PreviewInit ==
    [all_panels |-> <<>>, is_app_panels |-> FALSE, total_pages |-> 0,
     current_page |-> 0, canvas |-> <<>>]

\* the first position of the list whose panel has the id, 0 if there is none
RECURSIVE IndexById(_, _, _)
IndexById(o, ps, id) ==
    IF ps = <<>> THEN 0
    ELSE LET before == IndexById(o, SubSeq(ps, 1, Len(ps) - 1), id)
         IN  IF before # 0 THEN before
             ELSE IF o[ps[Len(ps)]].id = id THEN Len(ps) ELSE 0

\* PDFPreview.update_preview(selected_panel) on the preview state pv.
\* all_panels is bound to the list object app.panels itself; is_app_panels
\* tells whether app.panels is still that object.
update_preview(o, ps, pv, selected_panel) ==
    IF Len(ps) > 0
    THEN LET at   == IF selected_panel = NoPanel THEN 0
                     ELSE IndexById(o, ps, o[selected_panel].id)
             page == IF at = 0 THEN 0 ELSE (at - 1) \div PanelsPerGrid
         IN  [ all_panels   |-> ps,
               is_app_panels |-> TRUE,
               total_pages  |-> PreviewPages(Len(ps)),
               current_page |-> page,
               canvas       |-> _draw_page(o, ps, page) ]
    ELSE [pv EXCEPT !.current_page = 0, !.total_pages = 0, !.canvas = <<>>]

\* PDFPreview._prev_page
_prev_page(o, pv) ==
    IF pv.current_page > 0
    THEN [pv EXCEPT !.current_page = @ - 1,
                    !.canvas = _draw_page(o, pv.all_panels, pv.current_page - 1)]
    ELSE pv

\* PDFPreview._next_page
_next_page(o, pv) ==
    IF pv.current_page < pv.total_pages - 1
    THEN [pv EXCEPT !.current_page = @ + 1,
                    !.canvas = _draw_page(o, pv.all_panels, pv.current_page + 1)]
    ELSE pv

\* text.split(): the words of the text, which runs of spaces separate
split(text) ==
    LET starts == SelectIdx([i \in 1..Len(text) |->
                               text[i] # 32 /\ (i = 1 \/ text[i - 1] = 32)],
                            Len(text))
        stop(i) == CHOOSE j \in i..Len(text) :
                       /\ \A k \in i..j : text[k] # 32
                       /\ (j = Len(text) \/ text[j + 1] = 32)
    IN  [k \in 1..Len(starts) |-> SubSeq(text, starts[k], stop(starts[k]))]

\* int(max_width / (0.5 * font_size)), at least 1; int() truncates
\* towards zero
chars_per_line(max_width, font_size) ==
    LET quotient == IF max_width >= 0 THEN (2 * max_width) \div font_size
                    ELSE -((-2 * max_width) \div font_size)
    IN  IF quotient <= 0 THEN 1 ELSE quotient

\* the loop over the words of _calc_text_height: lines after the words
RECURSIVE WrapLines(_, _, _, _)
WrapLines(words, per_line, lines, current_line_length) ==
    IF words = <<>> THEN lines
    ELSE LET word_length == Len(words[1]) + 1
         IN  IF current_line_length + word_length <= per_line
             THEN WrapLines(Tail(words), per_line, lines,
                            current_line_length + word_length)
             ELSE WrapLines(Tail(words), per_line, lines + 1, word_length)

\* the division of _calc_text_height raises ZeroDivisionError
_calc_text_height_ZeroDivisionError(text, font_size) ==
    text # <<>> /\ font_size = 0

\* PDFPreview._calc_text_height(text, max_width, font_size)
_calc_text_height(text, max_width, font_size) ==
    IF text = <<>> THEN font_size
    ELSE WrapLines(split(text), chars_per_line(max_width, font_size), 1, 0)
         * (font_size + 2)

-----------------------------------------------------------------------------
(* The application as one record s: the fields are the state variables of   *)
(* the same names, plus exc, the exception a call is propagating (None if   *)
(* none), and ret, the value the last save returned.  Every method is an    *)
(* operator from the record before the call to the record after it.         *)

\* the record after the next statement, next, unless the statements that gave
\* s left an exception propagating, which skips it
Do(s, next) == IF s.exc # None THEN s ELSE next

-----------------------------------------------------------------------------
(* storyboard_generator/panels_list.py *)

\* PanelsList.__init__
PanelsListInit == [panels |-> <<>>, selected_index |-> -1]

\* PanelsList.select_panel(index) on the list state pl
select_panel(pl, index) ==
    IF 0 <= index /\ index < Len(pl.panels)
    THEN [pl EXCEPT !.selected_index = index]
    ELSE pl

\* PanelsList.update_panels(panels) on the list state pl
update_panels(pl, ps) ==
    LET clamped == IF pl.selected_index >= Len(ps)
                   THEN (IF ps # <<>> THEN Len(ps) - 1 ELSE -1)
                   ELSE pl.selected_index
        pl1     == [panels |-> ps, selected_index |-> clamped]
    IN  IF clamped >= 0 THEN select_panel(pl1, clamped) ELSE pl1

-----------------------------------------------------------------------------
(* storyboard_generator/shot_list.py *)

Str_All == <<65, 108, 108>>                         \* "All"

\* the characters of a camera name "Camera n"
chars(camera) ==
    <<67, 97, 109, 101, 114, 97, 32>> \o
    << CASE camera = "Camera 1" -> 49 [] camera = "Camera 2" -> 50
         [] camera = "Camera 3" -> 51 [] camera = "Camera 4" -> 52
         [] camera = "Camera 5" -> 53 [] camera = "Camera 6" -> 54
         [] camera = "Camera 7" -> 55 >>

\* ShotList.__init__: both boxes as created, no table yet
ShotListInit ==
    [filter_var |-> "All", filter_value_var |-> Str_empty, filter_values |-> <<>>,
     table |-> <<>>]

\* sorted(set(...)) of strings
RECURSIVE SortedSet(_)
SortedSet(S) ==
    IF S = {} THEN <<>>
    ELSE LET least == CHOOSE x \in S : \A y \in S : ~StrLess(y, x)
         IN  <<least>> \o SortedSet(S \ {least})

\* the attribute of a panel that a filter type compares with the filter value
FilterText(filter_type, panel) ==
    CASE filter_type = "Camera" -> chars(panel.camera)
      [] filter_type = "Setup"  -> panel.setup_number
      [] filter_type = "Scene"  -> panel.scene_number

\* the panels of ps that pass the filter, in list order
FilteredPanels(o, ps, filter_type, filter_value) ==
    IF filter_value # Str_All /\ filter_type \in {"Camera", "Setup", "Scene"}
    THEN LET idx == SelectIdx([i \in 1..Len(ps) |->
                                 FilterText(filter_type, o[ps[i]]) = filter_value],
                              Len(ps))
         IN  [k \in 1..Len(idx) |-> ps[idx[k]]]
    ELSE ps

\* the sort key of the table raises ValueError for the panel
RowKey_ValueError(panel) ==
    SceneKey_ValueError(panel.scene_number) \/ SceneKey_ValueError(panel.setup_number)

\* key=lambda p: (scene as int or inf, setup as int or inf, p.shot_number)
RowKey(panel) ==
    << NumericOrInf(panel.scene_number), NumericOrInf(panel.setup_number),
       panel.shot_number >>

\* the texts of one table row; the camera cell is the camera, followed by
\* the camera name when there is one
Row(panel) ==
    [ Scene |-> panel.scene_number, Shot |-> panel.shot_number,
      Setup |-> panel.setup_number,
      Camera |-> IF panel.camera_name # "" THEN <<panel.camera, panel.camera_name>>
                 ELSE <<panel.camera>>,
      Subject |-> panel.subject, Time |-> panel.shot_time, Size |-> panel.size,
      Move |-> panel.move, Lens |-> panel.lens, Description |-> panel.description,
      Notes |-> panel.notes, Audio |-> panel.audio_notes ]

\* the rows for the panels ps, sorted
Rows(o, ps) ==
    LET sorted_panels == sorted(ps, [i \in 1..Len(ps) |-> RowKey(o[ps[i]])])
    IN  [i \in 1..Len(ps) |-> Row(o[sorted_panels[i]])]

\* ShotList._update_shot_list: the table is cleared, then rebuilt unless
\* there is no panel or the sort raises
_update_shot_list(s) ==
    LET cleared  == [s EXCEPT !.shot_list.table = <<>>]
        filtered == FilteredPanels(s.objs, s.panels, s.shot_list.filter_var,
                                   s.shot_list.filter_value_var)
    IN  IF s.panels = <<>> THEN cleared
        ELSE IF \E h \in Range(filtered) : RowKey_ValueError(s.objs[h])
        THEN [cleared EXCEPT !.exc = "ValueError"]
        ELSE [s EXCEPT !.shot_list.table = Rows(s.objs, filtered)]

\* ShotList._on_filter_change
_on_filter_change(s) ==
    LET filter_type == s.shot_list.filter_var
        values == IF filter_type \in {"Camera", "Setup", "Scene"}
                  THEN SortedSet({FilterText(filter_type, s.objs[h]) : h \in Range(s.panels)})
                  ELSE <<>>
    IN  _update_shot_list([s EXCEPT !.shot_list.filter_values = <<Str_All>> \o values,
                                    !.shot_list.filter_value_var = Str_All])

\* ShotList.update
ShotList_update(s) == _on_filter_change(s)

-----------------------------------------------------------------------------
(* storyboard_generator/app.py and panel_editor.py: the editor and the      *)
(* callback it notifies.                                                    *)

\* PanelEditor.__init__ and _create_ui: no panel, the widgets as created,
\* no timer
PanelEditorInit ==
    [ current_panel |-> NoPanel, _text_change_timer |-> FALSE,
      scene_number_var |-> Str_1, shot_number_var |-> Str_empty,
      full_shot_var |-> Str_empty, lens_var |-> "", setup_number_var |-> Str_1,
      camera_var |-> "Camera 1", camera_name_var |-> "", size_var |-> "",
      type_var |-> "", move_var |-> "STATIC", equip_var |-> "STICKS",
      shot_time_var |-> "", subject_var |-> "", audio_notes_entry |-> "",
      action_var |-> "", bgd_var |-> "No", bgd_notes_var |-> "",
      description_entry |-> "", notes_entry |-> "",
      hair_makeup_enabled_var |-> "No", hair_makeup_entry |-> "",
      props_enabled_var |-> "No", props_entry |-> "",
      vfx_enabled_var |-> "No", vfx_entry |-> "" ]

\* StoryboardApp._on_panel_update(panel)
_on_panel_update(s, panel) ==
    LET selected(s2) ==
          LET index == IndexById(s2.objs, s2.panels, s2.objs[panel].id) - 1
          IN  IF index >= 0
              THEN [s2 EXCEPT !.panels_list = select_panel(@, index)]
              ELSE s2
        previewed(s3) ==
          [s3 EXCEPT !.pdf_preview = update_preview(s3.objs, s3.panels, @, panel),
                     !.modified = TRUE]
        updated(s2) == Do(s2, previewed(selected(s2)))
    IN  updated(ShotList_update([s EXCEPT !.panels_list = update_panels(@, s.panels)]))

\* PanelEditor._update_full_shot_number
_update_full_shot_number(e) ==
    [e EXCEPT !.full_shot_var =
        (IF e.scene_number_var # <<>> THEN e.scene_number_var ELSE Str_1)
        \o e.shot_number_var]

\* _auto_save without its else branches: the notes of a box that is not
\* shown are left as they are in the panel
_auto_save_without_else(s) ==
    LET e == s.panel_editor
        written(p) ==
          [p EXCEPT
            !.shot_number  = e.shot_number_var,
            !.scene_number = IF e.scene_number_var # <<>> THEN e.scene_number_var ELSE Str_1,
            !.camera       = e.camera_var,
            !.lens         = e.lens_var,
            !.size         = e.size_var,
            !.type         = e.type_var,
            !.move         = e.move_var,
            !.equip        = e.equip_var,
            !.action       = e.action_var,
            !.bgd          = e.bgd_var,
            !.bgd_notes    = IF e.bgd_var = "Yes" THEN e.bgd_notes_var ELSE p.bgd_notes,
            !.description  = e.description_entry,
            !.notes        = e.notes_entry,
            !.hair_makeup_enabled = e.hair_makeup_enabled_var,
            !.hair_makeup  = IF e.hair_makeup_enabled_var = "Yes"
                             THEN e.hair_makeup_entry ELSE p.hair_makeup,
            !.props_enabled = e.props_enabled_var,
            !.props        = IF e.props_enabled_var = "Yes" THEN e.props_entry ELSE p.props,
            !.vfx_enabled  = e.vfx_enabled_var,
            !.vfx          = IF e.vfx_enabled_var = "Yes" THEN e.vfx_entry ELSE p.vfx,
            !.setup_number = IF e.setup_number_var # <<>> THEN e.setup_number_var ELSE Str_1,
            !.camera_name  = e.camera_name_var,
            !.shot_time    = e.shot_time_var,
            !.subject      = e.subject_var,
            !.audio_notes  = e.audio_notes_entry ]
    IN  IF e.current_panel = NoPanel THEN s
        ELSE _on_panel_update(
                [s EXCEPT !.objs[e.current_panel] = written(@)], e.current_panel)

\* PanelEditor._auto_save
_auto_save(s) ==
    LET e == s.panel_editor
        written(p) ==
          [p EXCEPT
            !.shot_number  = e.shot_number_var,
            !.scene_number = IF e.scene_number_var # <<>> THEN e.scene_number_var ELSE Str_1,
            !.camera       = e.camera_var,
            !.lens         = e.lens_var,
            !.size         = e.size_var,
            !.type         = e.type_var,
            !.move         = e.move_var,
            !.equip        = e.equip_var,
            !.action       = e.action_var,
            !.bgd          = e.bgd_var,
            !.bgd_notes    = IF e.bgd_var = "Yes" THEN e.bgd_notes_var ELSE "",
            !.description  = e.description_entry,
            !.notes        = e.notes_entry,
            !.hair_makeup_enabled = e.hair_makeup_enabled_var,
            !.hair_makeup  = IF e.hair_makeup_enabled_var = "Yes"
                             THEN e.hair_makeup_entry ELSE "",
            !.props_enabled = e.props_enabled_var,
            !.props        = IF e.props_enabled_var = "Yes" THEN e.props_entry ELSE "",
            !.vfx_enabled  = e.vfx_enabled_var,
            !.vfx          = IF e.vfx_enabled_var = "Yes" THEN e.vfx_entry ELSE "",
            !.setup_number = IF e.setup_number_var # <<>> THEN e.setup_number_var ELSE Str_1,
            !.camera_name  = e.camera_name_var,
            !.shot_time    = e.shot_time_var,
            !.subject      = e.subject_var,
            !.audio_notes  = e.audio_notes_entry ]
    IN  IF e.current_panel = NoPanel THEN s
        ELSE _on_panel_update(
                [s EXCEPT !.objs[e.current_panel] = written(@)], e.current_panel)

\* PanelEditor._on_field_change
_on_field_change(s) ==
    _auto_save([s EXCEPT !.panel_editor = _update_full_shot_number(@)])

\* PanelEditor._on_text_change: the pending timer is cancelled and a new one
\* is started
_on_text_change(s) == [s EXCEPT !.panel_editor._text_change_timer = TRUE]

\* PanelEditor._toggle_bgd_notes(show)
_toggle_bgd_notes(s, show) ==
    _auto_save(IF show THEN s ELSE [s EXCEPT !.panel_editor.bgd_notes_var = ""])

\* PanelEditor._toggle_hair_makeup_notes(show)
_toggle_hair_makeup_notes(s, show) ==
    _auto_save(IF show THEN s ELSE [s EXCEPT !.panel_editor.hair_makeup_entry = ""])

\* PanelEditor._toggle_props_notes(show)
_toggle_props_notes(s, show) ==
    _auto_save(IF show THEN s ELSE [s EXCEPT !.panel_editor.props_entry = ""])

\* PanelEditor._toggle_vfx_notes(show)
_toggle_vfx_notes(s, show) ==
    _auto_save(IF show THEN s ELSE [s EXCEPT !.panel_editor.vfx_entry = ""])

\* the value load_panel gives an enabled box: the panel's attribute if it
\* has one, else "Yes" exactly when the notes are not empty
EnabledOf(attribute, notes) ==
    IF attribute # Absent THEN attribute
    ELSE IF notes # "" THEN "Yes" ELSE "No"

\* PanelEditor.load_panel(panel).  The panel is read anew at every step:
\* each _toggle_* call saves the widgets into it before the next widgets
\* are filled from it.
load_panel(s, panel) ==
    LET s0 == [s EXCEPT !.panel_editor.current_panel = panel]
        vars_set(t) ==
          LET p == t.objs[panel]
          IN  [t EXCEPT !.panel_editor =
                 _update_full_shot_number(
                   [@ EXCEPT !.shot_number_var = p.shot_number,
                             !.scene_number_var = p.scene_number])]
        fields_set(t) ==
          LET p == t.objs[panel]
          IN  [t EXCEPT !.panel_editor =
                 [@ EXCEPT !.camera_var = p.camera, !.lens_var = p.lens,
                           !.size_var = p.size, !.type_var = p.type,
                           !.move_var = p.move, !.equip_var = p.equip,
                           !.action_var = p.action, !.bgd_var = p.bgd,
                           !.bgd_notes_var = p.bgd_notes,
                           !.setup_number_var = p.setup_number,
                           !.camera_name_var = p.camera_name,
                           !.shot_time_var = p.shot_time,
                           !.subject_var = p.subject,
                           !.audio_notes_entry = p.audio_notes]]
        bgd(t) == _toggle_bgd_notes(t, t.objs[panel].bgd = "Yes")
        hair_makeup(t) ==
          LET p == t.objs[panel]
              enabled == EnabledOf(p.hair_makeup_enabled, p.hair_makeup)
          IN  Do(t, _toggle_hair_makeup_notes(
                      [t EXCEPT !.panel_editor =
                         [@ EXCEPT !.description_entry = p.description,
                                   !.notes_entry = p.notes,
                                   !.hair_makeup_enabled_var = enabled,
                                   !.hair_makeup_entry = p.hair_makeup]],
                      enabled = "Yes"))
        props(t) ==
          LET p == t.objs[panel]
              enabled == EnabledOf(p.props_enabled, p.props)
          IN  Do(t, _toggle_props_notes(
                      [t EXCEPT !.panel_editor =
                         [@ EXCEPT !.props_enabled_var = enabled,
                                   !.props_entry = p.props]],
                      enabled = "Yes"))
        vfx(t) ==
          LET p == t.objs[panel]
              enabled == EnabledOf(p.vfx_enabled, p.vfx)
          IN  Do(t, _toggle_vfx_notes(
                      [t EXCEPT !.panel_editor =
                         [@ EXCEPT !.vfx_enabled_var = enabled,
                                   !.vfx_entry = p.vfx]],
                      enabled = "Yes"))
    IN  IF panel = NoPanel THEN s0
        ELSE vfx(props(hair_makeup(bgd(fields_set(vars_set(s0))))))

-----------------------------------------------------------------------------
(* storyboard_generator/app.py: the project file *)

\* json.dump of one attribute value: a string, a number or null
json_value(v, attr) ==
    IF attr = "order" THEN [number |-> v]
    ELSE IF attr = "image_path" /\ v = None THEN [null |-> TRUE]
    ELSE [string |-> v]

\* json.load of one value
python_value(j) ==
    IF "number" \in DOMAIN j THEN j.number
    ELSE IF "null" \in DOMAIN j THEN None
    ELSE j.string

\* json.dump(project_data): the version and the panel dictionaries
json_dump(panels_data) ==
    [ version |-> [string |-> "1.0"],
      panels  |-> [i \in 1..Len(panels_data) |->
                     [k \in DOMAIN panels_data[i] |-> json_value(panels_data[i][k], k)]] ]

\* json.load(file), then project_data.get('panels', [])
json_load_panels(text) ==
    [i \in 1..Len(text.panels) |->
        [k \in DOMAIN text.panels[i] |-> python_value(text.panels[i][k])]]

\* the path the user picks in the project dialogs
ProjectPaths == {"a.sbp"}

NoFile == [missing |-> TRUE]

\* a file on disk that the application did not write, and its text:
\* {"version": "1.0", "panels": [0]}
ForeignPath == "foreign.sbp"

ForeignFile == [version |-> [string |-> "1.0"], panels |-> <<[number |-> 0]>>]

\* open(file_path, 'r') followed by json.load(file)
json_load(files, file_path) ==
    IF file_path = ForeignPath THEN ForeignFile ELSE files[file_path]

\* whether the JSON value j is an object, which json.load makes a dict
is_dict(j) == DOMAIN j \cap {"number", "string", "null"} = {}

-----------------------------------------------------------------------------
(* storyboard_generator/app.py: the handlers *)

\* uuid.uuid4(): an id that no panel in memory or on disk has
FreshUuid(s) ==
    LET used == {s.objs[h].id : h \in DOMAIN s.objs}
                \cup UNION {{python_value(d.id) : d \in Range(s.project_files[f].panels)} :
                              f \in {g \in ProjectPaths : s.project_files[g] # NoFile}}
    IN  CHOOSE n \in 1..(Cardinality(used) + 1) : n \notin used

\* an in-place change of the list app.panels: the preview sees it when its
\* all_panels is that list
Mutate(s, ps) ==
    [s EXCEPT !.panels = ps,
              !.pdf_preview = IF @.is_app_panels THEN [@ EXCEPT !.all_panels = ps] ELSE @]

\* self.panels = []: app.panels is a new list
Rebind(s) ==
    [s EXCEPT !.panels = <<>>, !.pdf_preview.is_app_panels = FALSE]

\* the three calls that follow a change of the selection
Show(s, index) ==
    LET panel == s.panels[index + 1]
        previewed(s2) ==
          Do(s2, [s2 EXCEPT !.pdf_preview =
                                update_preview(s2.objs, s2.panels, @, panel)])
    IN  previewed(load_panel([s EXCEPT !.panels_list = select_panel(@, index)], panel))

\* load_panel(None) and update_preview(None)
ShowNone(s) ==
    LET previewed(s1) ==
          [s1 EXCEPT !.pdf_preview = update_preview(s1.objs, s1.panels, @, NoPanel)]
    IN  previewed(load_panel(s, NoPanel))

\* StoryboardApp._on_panel_select(index)
_on_panel_select(s, index) ==
    IF 0 <= index /\ index < Len(s.panels)
    THEN LET panel == s.panels[index + 1]
             previewed(s1) ==
               Do(s1, [s1 EXCEPT !.pdf_preview =
                                     update_preview(s1.objs, s1.panels, @, panel)])
         IN  previewed(load_panel(s, panel))
    ELSE s

\* PanelsList._on_panel_click(index)
_on_panel_click(s, index) ==
    IF 0 <= index /\ index < Len(s.panels_list.panels)
    THEN _on_panel_select([s EXCEPT !.panels_list = select_panel(@, index)], index)
    ELSE s

\* update_panels(self.panels) followed by shot_list.update()
Refresh(s) ==
    ShotList_update([s EXCEPT !.panels_list = update_panels(@, s.panels)])

\* self.modified = True, the last statement of the handlers that change
\* the list
Modified(s) == Do(s, [s EXCEPT !.modified = TRUE])

\* StoryboardApp._add_panel
_add_panel(s) ==
    LET new == Len(s.objs) + 1
        fresh == NewPanel(FreshUuid(s))
        panel == IF s.panels # <<>>
                 THEN LET last_panel == s.objs[s.panels[Len(s.panels)]]
                      IN  [fresh EXCEPT !.scene_number = last_panel.scene_number,
                                        !.setup_number = last_panel.setup_number,
                                        !.camera = last_panel.camera,
                                        !.camera_name = last_panel.camera_name]
                 ELSE fresh
        s1 == Mutate([s EXCEPT !.objs = Append(@, panel)], Append(s.panels, new))
        shown(s2) == Do(s2, Show(s2, Len(s2.panels) - 1))
    IN  Modified(shown(Refresh(s1)))

\* the list without its element at position i (1-based)
Without(ps, i) == SubSeq(ps, 1, i - 1) \o SubSeq(ps, i + 1, Len(ps))

\* StoryboardApp._delete_panel, the confirmation answered with yes
_delete_panel(s) ==
    LET index == s.panels_list.selected_index
        s1 == Mutate(s, Without(s.panels, index + 1))
        shown(s2) == Do(s2, IF s2.panels # <<>>
                            THEN Show(s2, Min(index, Len(s2.panels) - 1))
                            ELSE ShowNone(s2))
    IN  IF 0 <= index /\ index < Len(s.panels)
        THEN Modified(shown(Refresh(s1)))
        ELSE s

\* the list with the elements at positions i and j (1-based) exchanged
Swapped(ps, i, j) == [ps EXCEPT ![i] = ps[j], ![j] = ps[i]]

\* StoryboardApp._move_panel_up
_move_panel_up(s) ==
    LET index == s.panels_list.selected_index
        s1 == Mutate(s, Swapped(s.panels, index + 1, index))
        selected(s2) == Do(s2, [s2 EXCEPT !.panels_list = select_panel(@, index - 1)])
    IN  IF 0 < index /\ index < Len(s.panels)
        THEN Modified(selected(Refresh(s1)))
        ELSE s

\* StoryboardApp._move_panel_down
_move_panel_down(s) ==
    LET index == s.panels_list.selected_index
        s1 == Mutate(s, Swapped(s.panels, index + 1, index + 2))
        selected(s2) == Do(s2, [s2 EXCEPT !.panels_list = select_panel(@, index + 1)])
    IN  IF 0 <= index /\ index < Len(s.panels) - 1
        THEN Modified(selected(Refresh(s1)))
        ELSE s

\* StoryboardApp._duplicate_panel
_duplicate_panel(s) ==
    LET index == s.panels_list.selected_index
        new == Len(s.objs) + 1
        uuid == FreshUuid(s)
        copy == from_dict(to_dict(s.objs[s.panels[index + 1]]), uuid)
        new_panel == [copy EXCEPT !.id = uuid,
                                  !.shot_number = IF @ # <<>> THEN @ \o Str_space_copy
                                                  ELSE Str_copy]
        s1 == Mutate([s EXCEPT !.objs = Append(@, new_panel)],
                     SubSeq(s.panels, 1, index + 1) \o <<new>>
                     \o SubSeq(s.panels, index + 2, Len(s.panels)))
        shown(s2) == Do(s2, Show(s2, index + 1))
    IN  IF 0 <= index /\ index < Len(s.panels)
        THEN Modified(shown(Refresh(s1)))
        ELSE s

\* a save loop that leaves every panel's order as it is
order_unchanged(o, ps) == o

\* for i, panel in enumerate(self.panels): panel.order = i
enumerate_order(o, ps) ==
    [h \in DOMAIN o |->
        IF h \in Range(ps)
        THEN [o[h] EXCEPT !.order = (CHOOSE i \in 1..Len(ps) : ps[i] = h) - 1]
        ELSE o[h]]

\* what the file system does to a save
DiskOutcomes == {"ok", "makedirs fails", "open fails"}

\* the try block of StoryboardApp._save_project, current_project_path set
_save_project_try(s, disk) ==
    LET failed(t) == [t EXCEPT !.messagebox = "Failed to save project", !.ret = FALSE]
        s1 == [s EXCEPT !.objs = enumerate_order(@, s.panels)]
        panels_data == [i \in 1..Len(s1.panels) |-> to_dict(s1.objs[s1.panels[i]])]
    IN  IF disk = "makedirs fails" THEN failed(s)
        ELSE IF disk = "open fails" THEN failed(s1)
        ELSE [s1 EXCEPT !.project_files[s.current_project_path] = json_dump(panels_data),
                        !.modified = FALSE,
                        !.messagebox = "Project saved successfully",
                        !.ret = TRUE]

\* StoryboardApp._save_project_as, the dialog answered with file_path
\* ("" when it is cancelled)
_save_project_as(s, file_path, disk) ==
    IF file_path = "" THEN [s EXCEPT !.ret = FALSE]
    ELSE _save_project_try([s EXCEPT !.current_project_path = file_path], disk)

\* StoryboardApp._save_project
_save_project(s, file_path, disk) ==
    IF s.current_project_path = None
    THEN _save_project_as(s, file_path, disk)
    ELSE _save_project_try(s, disk)

\* the answers to the question about unsaved changes
Responses == {"yes", "no", "cancel"}

\* the question about unsaved changes, with a handler that goes on whatever
\* the answer and whatever the save returns
UnsavedChanges_goes_on(s, response, file_path, disk) ==
    IF s.modified /\ s.panels # <<>>
    THEN IF response = "yes"
         THEN [_save_project([s EXCEPT !.asked = TRUE], file_path, disk)
                 EXCEPT !.ret = TRUE]
         ELSE [s EXCEPT !.asked = TRUE, !.ret = TRUE]
    ELSE [s EXCEPT !.ret = TRUE]

\* the question about unsaved changes that opens _new_project,
\* _open_project and _exit_app; ret tells whether the handler goes on or
\* returns
UnsavedChanges(s, response, file_path, disk) ==
    IF s.modified /\ s.panels # <<>>
    THEN IF response = "cancel" THEN [s EXCEPT !.asked = TRUE, !.ret = FALSE]
         ELSE IF response = "yes"
         THEN _save_project([s EXCEPT !.asked = TRUE], file_path, disk)
         ELSE [s EXCEPT !.asked = TRUE, !.ret = TRUE]
    ELSE [s EXCEPT !.ret = TRUE]

\* StoryboardApp._new_project
_new_project(s, response, file_path, disk) ==
    LET cleared(t) ==
          LET t1 == [Rebind(t) EXCEPT !.current_project_path = None,
                                      !.modified = FALSE]
              t2 == [t1 EXCEPT !.panels_list = update_panels(@, t1.panels)]
          IN  ShotList_update(ShowNone(t2))
        answered(t) == IF t.ret THEN cleared(t) ELSE t
    IN  answered(UnsavedChanges(s, response, file_path, disk))

\* StoryboardApp._open_project, the open dialog answered with open_path
\* ("" when it is cancelled)
_open_project(s, response, file_path, disk, open_path) ==
    LET failed(t) == [t EXCEPT !.messagebox = "Failed to open project", !.exc = None]
        opened(t) ==
          LET project_data == json_load(t.project_files, open_path)
              not_dict == {i \in 1..Len(project_data.panels) : ~is_dict(project_data.panels[i])}
              n == IF not_dict = {} THEN Len(project_data.panels)
                   ELSE (CHOOSE i \in not_dict : \A j \in not_dict : i <= j) - 1
              panels_data == json_load_panels([project_data EXCEPT !.panels = SubSeq(@, 1, n)])
              first == Len(t.objs)
              loaded == [i \in 1..n |-> from_dict(panels_data[i], FreshUuid(t))]
              appended == [i \in 1..n |-> first + i]
              t1 == [Rebind(t) EXCEPT !.objs = @ \o loaded]
              t2 == [t1 EXCEPT !.panels =
                        sorted(appended, [i \in 1..n |-> << <<loaded[i].order>> >>]),
                               !.current_project_path = open_path,
                               !.modified = FALSE]
              shown(t3) == Do(t3, IF t3.panels # <<>> THEN Show(t3, 0) ELSE ShowNone(t3))
              reported(t4) ==
                IF t4.exc # None THEN failed(t4)
                ELSE [t4 EXCEPT !.messagebox = "Project loaded successfully"]
              \* data.get of Panel.from_dict raises AttributeError on an entry
              \* that is not a dict, the entries before it being appended
              raised == [t1 EXCEPT !.panels = appended]
          IN  IF not_dict # {} THEN failed(raised) ELSE reported(shown(Refresh(t2)))
        dialog(t) ==
          IF open_path = "" THEN t
          ELSE IF json_load(t.project_files, open_path) = NoFile THEN failed(t)
          ELSE opened(t)
        answered(t) == IF t.ret THEN dialog(t) ELSE t
    IN  answered(UnsavedChanges(s, response, file_path, disk))

\* StoryboardApp._exit_app
_exit_app(s, response, file_path, disk) ==
    LET answered(t) == IF t.ret THEN [t EXCEPT !.running = FALSE] ELSE t
    IN  answered(UnsavedChanges(s, response, file_path, disk))

-----------------------------------------------------------------------------
(* The first-generation exporter (src/pdf_exporter.py), which colours the   *)
(* shot label by hash().  Python salts the hash of a string per process,    *)
(* so hash is a function fixed when the process starts: str_hash.           *)

\* str(n) for a natural number, as character codes
RECURSIVE str(_)
str(n) == IF n < 10 THEN <<48 + n>> ELSE str(n \div 10) \o <<48 + (n % 10)>>

\* colors_list of the first-generation _get_shot_color
Legacy_colors_list == <<blue, orange, green, purple, red, brown, darkgrey>>

\* shot_num of the first-generation _get_shot_color
Legacy_shot_num(panel) ==
    IF panel.shot_number # <<>> THEN panel.shot_number ELSE str(panel.order + 1)

\* the first-generation PDFExporter._get_shot_color; hash is the process's
\* hash function and Python's % yields a result in 0..6 (list index + 1 here)
Legacy_get_shot_color(panel, hash) ==
    LET shot_num == Legacy_shot_num(panel)
        color_index == hash[<<shot_num[1]>>] % Len(Legacy_colors_list)
    IN  Legacy_colors_list[color_index + 1]

\* the first-generation PDFExporter._create_panel_element, as far as colour
Legacy_create_panel_element(o, h, hash) ==
    [kind |-> "Panel", panel |-> h, shot_color |-> Legacy_get_shot_color(o[h], hash)]

\* the first-generation PDFExporter.export_storyboard: panels sorted by
\* order, four to a row, rows padded with empty panels
Legacy_export_storyboard(o, ps, hash) ==
    LET sorted_panels == sorted(ps, [i \in 1..Len(ps) |-> << <<o[ps[i]].order>> >>])
        n == (Len(sorted_panels) + 3) \div 4
        group(k) == SubSeq(sorted_panels, 4 * (k - 1) + 1, Min(4 * k, Len(sorted_panels)))
        row(k) == [kind |-> "Row",
                   cells |-> [j \in 1..4 |->
                                IF j <= Len(group(k))
                                THEN Legacy_create_panel_element(o, group(k)[j], hash)
                                ELSE _create_empty_panel]]
    IN  <<[kind |-> "Title"]>> \o [k \in 1..n |-> row(k)]

\* the paths the user may pick in the export dialog
OutputPaths == {"a.pdf", "b.pdf"}

NoFiles == [p \in OutputPaths |-> <<>>]

-----------------------------------------------------------------------------
(* The two renderers applied to a storyboard list.                          *)

MaxList     == 3     \* longest list over the full scene and shot alphabet
MaxLongList == 8     \* longest list over two scenes and one shot label

\* every sequence over S of length at most n
\* the editor, the panel list and the shot list as their constructors leave
\* them, no project path, no project file
\* no call of _calc_text_height yet
NoCall == [text |-> <<>>, max_width |-> 0, font_size |-> 0, returned |-> FALSE,
           text_height |-> 0, raised |-> None]

InitComponents ==
    /\ panel_editor = PanelEditorInit
    /\ panels_list = PanelsListInit
    /\ shot_list = ShotListInit
    /\ current_project_path = None
    /\ modified = FALSE
    /\ project_files = [p \in ProjectPaths |-> NoFile]
    /\ asked = FALSE
    /\ running = TRUE

SeqsUpTo(S, n) == UNION {[1..k -> S] : k \in 0..n}

LayoutInputs ==
    SeqsUpTo({Str_2, Str_10, Str_A, Str_sup2} \X {Str_empty, Str_A, Str_B}, MaxList)
    \cup SeqsUpTo({Str_2, Str_10} \X {Str_A}, MaxLongList)

\* the heap holding one panel per list position, with the given scene and
\* shot labels and the ids 1..n
HeapOf(input) ==
    [h \in 1..Len(input) |->
        [NewPanel(h) EXCEPT !.scene_number = input[h][1],
                            !.shot_number  = input[h][2]]]

InitLayout ==
    /\ \E input \in LayoutInputs :
          /\ objs = HeapOf(input)
          /\ panels = [h \in 1..Len(input) |-> h]
    /\ elements = <<>>
    /\ pdf_preview = PreviewInit
    /\ str_hash = <<>>
    /\ pdf_files = NoFiles
    /\ messagebox = None
    /\ InitComponents
    /\ calc = NoCall

\* StoryboardApp._export_to_pdf, a path having been picked in the dialog
ExportToPDF ==
    /\ IF panels = <<>>
       THEN /\ messagebox' = "No panels to export."
            /\ UNCHANGED elements
       ELSE IF export_storyboard_raises(objs, panels)
       THEN /\ messagebox' = "Failed to export to PDF"
            /\ UNCHANGED elements
       ELSE /\ elements' = export_storyboard(objs, panels)
            /\ messagebox' = "Storyboard exported to PDF successfully"
    /\ UNCHANGED <<objs, panels, pdf_preview, colourVars, appVars, calc>>

\* the preview refreshed for a selected panel (or none)
UpdatePreview ==
    /\ \E sel \in Range(panels) \cup {NoPanel} :
          pdf_preview' = update_preview(objs, panels, pdf_preview, sel)
    /\ UNCHANGED <<objs, panels, elements, colourVars, messagebox, appVars, calc>>

PrevPage ==
    /\ pdf_preview.current_page > 0
    /\ pdf_preview' = _prev_page(objs, pdf_preview)
    /\ UNCHANGED <<objs, panels, elements, colourVars, messagebox, appVars, calc>>

NextPage ==
    /\ pdf_preview.current_page < pdf_preview.total_pages - 1
    /\ pdf_preview' = _next_page(objs, pdf_preview)
    /\ UNCHANGED <<objs, panels, elements, colourVars, messagebox, appVars, calc>>

NextLayout == ExportToPDF \/ UpdatePreview \/ PrevPage \/ NextPage

SpecLayout == InitLayout /\ [][NextLayout]_vars

-----------------------------------------------------------------------------
(* Colour assignment: the renderers applied to storyboards that vary the    *)
(* shot letter and the camera, over several runs of the program.            *)

MaxColourList == 2     \* longest storyboard list of the colour inputs

Str_a == <<97>>        \* "a", a shot letter the lookup table does not hold

\* (shot_number, camera): a letter and a camera of the tables, a letter and
\* a camera outside them, and no shot number
ColourInputs ==
    SeqsUpTo({<<Str_A, "Camera 1">>, <<Str_a, "Camera 7">>, <<Str_empty, "Camera 1">>},
             MaxColourList)

\* the heap for a colour input; order is the list index, as after a save
ColourHeap(input) ==
    [h \in 1..Len(input) |->
        [NewPanel(h) EXCEPT !.shot_number = input[h][1],
                            !.camera      = input[h][2],
                            !.order       = h - 1]]

\* two of the values hash() can return for a string
HashSample == {0, 4}

\* the one-character strings the first-generation exporter hashes
HashKeys(o, ps) == {<<Legacy_shot_num(o[h])[1]>> : h \in Range(ps)}

InitColour ==
    /\ \E input \in ColourInputs :
          /\ objs = ColourHeap(input)
          /\ panels = [h \in 1..Len(input) |-> h]
    /\ elements = <<>>
    /\ pdf_preview = PreviewInit
    /\ str_hash \in [HashKeys(objs, panels) -> HashSample]
    /\ pdf_files = NoFiles
    /\ messagebox = None
    /\ InitComponents
    /\ calc = NoCall

\* the first-generation StoryboardApp._export_to_pdf
LegacyExportToPDF ==
    /\ panels # <<>>
    /\ \E output_path \in OutputPaths :
          pdf_files' = [pdf_files EXCEPT
                          ![output_path] = Legacy_export_storyboard(objs, panels, str_hash)]
    /\ messagebox' = "Storyboard exported to"
    /\ UNCHANGED <<objs, panels, elements, pdf_preview, str_hash, appVars, calc>>

\* the program is quit and started again on the same project: a new
\* process with its own hash salt; files on disk stay
RunAgain ==
    /\ str_hash' \in [HashKeys(objs, panels) -> HashSample]
    /\ pdf_preview' = PreviewInit
    /\ messagebox' = None
    /\ UNCHANGED <<objs, panels, elements, pdf_files, appVars, calc>>

NextColour == ExportToPDF \/ UpdatePreview \/ LegacyExportToPDF \/ RunAgain

SpecColour == InitColour /\ [][NextColour]_vars

-----------------------------------------------------------------------------
(* Serialisation: Panel.to_dict followed by Panel.from_dict, applied to     *)
(* panels that differ from a new panel in a few attributes.                 *)

MaxChanged == 2      \* most attributes of an input panel that are not defaults

\* every subset of S with at most n elements
RECURSIVE SubsetsUpTo(_, _)
SubsetsUpTo(S, n) ==
    IF n = 0 THEN {{}}
    ELSE LET prev == SubsetsUpTo(S, n - 1)
         IN  prev \cup {T \cup {x} : T \in prev, x \in S}

\* a value other than the default, of the attribute's type
OtherValue(attr) ==
    CASE attr = "shot_number"  -> Str_A
      [] attr = "scene_number" -> Str_2
      [] attr = "setup_number" -> Str_2
      [] attr = "camera"       -> "Camera 2"
      [] attr = "move"         -> "PAN"
      [] attr = "equip"        -> "GIMBAL"
      [] attr = "bgd"          -> "Yes"
      [] attr = "order"        -> 1
      [] attr = "image_path"   -> "images/gone.png"
      [] attr \in {"hair_makeup_enabled", "props_enabled", "vfx_enabled"} -> "Yes"
      [] OTHER                 -> "text"

\* the attributes an input panel may have changed (id is the uuid drawn)
ChangeableAttrs == (DOMAIN NewPanel(1)) \ {"id"}

RoundTripInputs ==
    {[a \in DOMAIN NewPanel(1) |->
         IF a \in changed THEN OtherValue(a) ELSE NewPanel(1)[a]] :
       changed \in SubsetsUpTo(ChangeableAttrs, MaxChanged)}

InitRoundTrip ==
    /\ \E panel \in RoundTripInputs : objs = <<panel>>
    /\ panels = <<1>>
    /\ elements = <<>>
    /\ pdf_preview = PreviewInit
    /\ str_hash = <<>>
    /\ pdf_files = NoFiles
    /\ messagebox = None
    /\ InitComponents
    /\ calc = NoCall

\* Panel.from_dict(panel.to_dict()): the new object is appended to the heap;
\* its constructor draws a uuid no other panel has
RoundTrip ==
    /\ Len(objs) = 1
    /\ \E uuid \in {2, 3} :
          objs' = Append(objs, from_dict(to_dict(objs[1]), uuid))
    /\ UNCHANGED <<panels, elements, pdf_preview, colourVars, messagebox, appVars, calc>>

NextRoundTrip == RoundTrip

SpecRoundTrip == InitRoundTrip /\ [][NextRoundTrip]_vars

-----------------------------------------------------------------------------
(* The application: the handlers run from the window's buttons, menus,      *)
(* keys and timer.                                                          *)

\* the application as a record, before a handler runs
Cur ==
    [ objs |-> objs, panels |-> panels, panel_editor |-> panel_editor,
      panels_list |-> panels_list, shot_list |-> shot_list,
      pdf_preview |-> pdf_preview, current_project_path |-> current_project_path,
      modified |-> modified, project_files |-> project_files,
      asked |-> FALSE, running |-> running,
      messagebox |-> None, exc |-> None, ret |-> FALSE ]

\* the handles the application still refers to: the list first
Referenced(s) ==
    s.panels \o s.panels_list.panels
    \o (IF s.panel_editor.current_panel # NoPanel
        THEN <<s.panel_editor.current_panel>> ELSE <<>>)
    \o s.pdf_preview.all_panels

\* the sequence without its repetitions
RECURSIVE Distinct(_)
Distinct(seq) ==
    IF seq = <<>> THEN <<>>
    ELSE LET front == Distinct(SubSeq(seq, 1, Len(seq) - 1))
             last  == seq[Len(seq)]
         IN  IF last \in Range(front) THEN front ELSE Append(front, last)

\* the same application with the objects nothing refers to collected and
\* the handles renumbered in the order of Referenced
Canon(s) ==
    LET live == Distinct(Referenced(s))
        new(h) == CHOOSE i \in 1..Len(live) : live[i] = h
        ren(seq) == [i \in 1..Len(seq) |-> new(seq[i])]
    IN  [s EXCEPT !.objs = [i \in 1..Len(live) |-> s.objs[live[i]]],
                  !.panels = ren(s.panels),
                  !.panels_list.panels = ren(s.panels_list.panels),
                  !.panel_editor.current_panel = IF @ = NoPanel THEN NoPanel ELSE new(@),
                  !.pdf_preview.all_panels = ren(s.pdf_preview.all_panels)]

\* the event loop runs a handler: the handler has returned, or has raised
\* into the loop, which reports the exception and goes on
Handled(s) ==
    \E c \in {Canon(s)} :
        /\ running
        /\ objs' = c.objs
        /\ panels' = c.panels
        /\ panel_editor' = c.panel_editor
        /\ panels_list' = c.panels_list
        /\ shot_list' = c.shot_list
        /\ pdf_preview' = c.pdf_preview
        /\ current_project_path' = c.current_project_path
        /\ modified' = c.modified
        /\ project_files' = c.project_files
        /\ messagebox' = c.messagebox
        /\ asked' = c.asked
        /\ running' = c.running
        /\ UNCHANGED <<elements, colourVars, calc>>

\* StoryboardApp.__init__: the components are built, then _new_project runs
Constructed ==
    _new_project(
        [ objs |-> <<>>, panels |-> <<>>, panel_editor |-> PanelEditorInit,
          panels_list |-> PanelsListInit, shot_list |-> ShotListInit,
          pdf_preview |-> PreviewInit, current_project_path |-> None,
          modified |-> FALSE, project_files |-> [p \in ProjectPaths |-> NoFile],
          asked |-> FALSE, running |-> TRUE,
          messagebox |-> None, exc |-> None, ret |-> FALSE ],
        "no", "", "ok")

InitApp ==
    /\ \E c \in {Constructed} :
          /\ objs = c.objs
          /\ panels = c.panels
          /\ panel_editor = c.panel_editor
          /\ panels_list = c.panels_list
          /\ shot_list = c.shot_list
          /\ pdf_preview = c.pdf_preview
          /\ current_project_path = c.current_project_path
          /\ modified = c.modified
          /\ project_files = c.project_files
    /\ asked = FALSE
    /\ running = TRUE
    /\ calc = NoCall
    /\ messagebox = None
    /\ elements = <<>>
    /\ str_hash = <<>>
    /\ pdf_files = NoFiles

\* Add Panel, while the list has fewer than max panels
AddPanel(max) ==
    /\ Len(panels) < max
    /\ Handled(_add_panel(Cur))

\* Delete Panel, the confirmation answered with yes
DeletePanel == Handled(_delete_panel(Cur))

MoveUp == Handled(_move_panel_up(Cur))

MoveDown == Handled(_move_panel_down(Cur))

\* Duplicate Panel, while the list has fewer than max panels and the
\* selected shot label is not longer than max_shot
DuplicatePanel(max, max_shot) ==
    /\ Len(panels) < max
    /\ 0 <= panels_list.selected_index /\ panels_list.selected_index < Len(panels)
    /\ Len(objs[panels[panels_list.selected_index + 1]].shot_number) <= max_shot
    /\ Handled(_duplicate_panel(Cur))

\* a click on a thumbnail of the panel list
ClickPanel ==
    \E index \in 0..(Len(panels_list.panels) - 1) :
        Handled(_on_panel_click(Cur, index))

\* a key released in an entry bound to _on_field_change, the entry then
\* holding value
EditEntry(var, values) ==
    \E value \in values :
        Handled(_on_field_change([Cur EXCEPT !.panel_editor[var] = value]))

\* the Yes/No variable that shows or hides a notes box
EnabledVar(entry) ==
    CASE entry = "hair_makeup_entry" -> "hair_makeup_enabled_var"
      [] entry = "props_entry"       -> "props_enabled_var"
      [] entry = "vfx_entry"         -> "vfx_enabled_var"

\* the text box is on screen: the three notes boxes are shown by their
\* _toggle_*_notes(True) and hidden by _toggle_*_notes(False), which the
\* handlers call with show = (the Yes/No variable is "Yes")
OnScreen(entry) ==
    entry \in {"hair_makeup_entry", "props_entry", "vfx_entry"}
        => panel_editor[EnabledVar(entry)] = "Yes"

\* a key released in a text box bound to _on_text_change, the box then
\* holding text
TypeText(entries, texts) ==
    \E entry \in entries, text \in texts :
        /\ OnScreen(entry)
        /\ Handled(_on_text_change([Cur EXCEPT !.panel_editor[entry] = text]))

\* the 500 ms timer started by _on_text_change fires
TimerFires ==
    /\ panel_editor._text_change_timer
    /\ Handled(_auto_save([Cur EXCEPT !.panel_editor._text_change_timer = FALSE]))

\* the command of the Yes and No buttons of a notes box
ToggleNotes(s, entry, show) ==
    CASE entry = "hair_makeup_entry" -> _toggle_hair_makeup_notes(s, show)
      [] entry = "props_entry"       -> _toggle_props_notes(s, show)
      [] entry = "vfx_entry"         -> _toggle_vfx_notes(s, show)

\* a click on the Yes or the No button of a notes box: the button sets its
\* variable, then runs its command
ClickYesNo(entries) ==
    \E entry \in entries, value \in {"Yes", "No"} :
        Handled(ToggleNotes([Cur EXCEPT !.panel_editor[EnabledVar(entry)] = value],
                            entry, value = "Yes"))

\* a filter type picked in the first box of the shot list
SelectFilterType ==
    \E filter_type \in {"All", "Camera", "Setup", "Scene"} :
        Handled(_on_filter_change([Cur EXCEPT !.shot_list.filter_var = filter_type]))

\* a filter value picked in the second box of the shot list
SelectFilterValue ==
    \E value \in Range(shot_list.filter_values) :
        Handled(_update_shot_list([Cur EXCEPT !.shot_list.filter_value_var = value]))

\* the paths a save dialog may return: a path, or "" when it is cancelled
DialogPaths == ProjectPaths \cup {ForeignPath, ""}

\* the answers to the question about unsaved changes, when it is asked
Answers == IF modified /\ panels # <<>> THEN Responses ELSE {"no"}

\* what a save meets: the path its dialog returns, when there is no project
\* path yet, and what the file system does, when it gets that far
SaveInputs ==
    IF current_project_path = None
    THEN (ProjectPaths \X DiskOutcomes) \cup {<<"", "ok">>}
    ELSE {""} \X DiskOutcomes

\* the same for the save that the answer yes sets off
SaveInputsAfter(response) == IF response = "yes" THEN SaveInputs ELSE {<<"", "ok">>}

NewProject ==
    \E response \in Answers :
        \E save \in SaveInputsAfter(response) :
            Handled(_new_project(Cur, response, save[1], save[2]))

\* Open Project; the open dialog returns a file that exists when it is
\* shown, or is cancelled
OpenProject ==
    \E response \in Answers :
        \E save \in SaveInputsAfter(response) :
            \E open_path \in DialogPaths :
                \E opened \in {_open_project(Cur, response, save[1], save[2], open_path)} :
                    /\ open_path \in ProjectPaths => opened.project_files[open_path] # NoFile
                    /\ Handled(opened)

\* Exit of the File menu
ExitApp ==
    \E response \in Answers :
        \E save \in SaveInputsAfter(response) :
            Handled(_exit_app(Cur, response, save[1], save[2]))

SaveProject ==
    \E save \in SaveInputs : Handled(_save_project(Cur, save[1], save[2]))

SaveProjectAs ==
    \E save \in (ProjectPaths \X DiskOutcomes) \cup {<<"", "ok">>} :
        Handled(_save_project_as(Cur, save[1], save[2]))

-----------------------------------------------------------------------------
(* Specification ShotList: the list operations, the entries that the shot   *)
(* list sorts and filters by, and the two filter boxes.                     *)

MaxShotListPanels == 2    \* most panels in the list
MaxShotLen == 1           \* longest shot label that is duplicated

SceneTexts == {Str_1, Str_2, Str_sup2}

NextShotList ==
    \/ AddPanel(MaxShotListPanels)
    \/ DeletePanel
    \/ MoveUp
    \/ MoveDown
    \/ DuplicatePanel(MaxShotListPanels, MaxShotLen)
    \/ ClickPanel
    \/ EditEntry("scene_number_var", SceneTexts)
    \/ SelectFilterType
    \/ SelectFilterValue

SpecShotList == InitApp /\ [][NextShotList]_vars

-----------------------------------------------------------------------------
(* Specification Editor: the text boxes of the editor, their timer, and    *)
(* the selection of a panel.                                                *)

MaxEditorPanels == 2      \* most panels in the list

\* the text boxes typed into: one of each kind that load_panel and
\* _auto_save distinguish.  notes_entry is filled and saved like
\* description_entry; props_entry and vfx_entry like hair_makeup_entry.
TextEntries == {"description_entry", "audio_notes_entry", "hair_makeup_entry"}

\* what a text box holds after a key: a text, or nothing
TypedTexts == {"x", ""}

\* the notes boxes whose Yes and No buttons are clicked
NotesEntries == {"hair_makeup_entry"}

NextEditor ==
    \/ AddPanel(MaxEditorPanels)
    \/ DeletePanel
    \/ ClickPanel
    \/ TypeText(TextEntries, TypedTexts)
    \/ TimerFires
    \/ ClickYesNo(NotesEntries)

SpecEditor == InitApp /\ [][NextEditor]_vars


-----------------------------------------------------------------------------
(* Specification Notes: the Background buttons and notes entry and the     *)
(* Yes/No buttons and notes boxes of the additional information section.    *)

MaxNotesPanels == 2       \* most panels in the list

\* the notes boxes typed into and switched on and off: the first and the
\* last that load_panel fills.  props_entry is filled, shown, hidden and
\* saved like them.
NotesBoxes == {"hair_makeup_entry", "vfx_entry"}

\* what a notes field holds after a key
NotesTexts == {"x"}

\* a click on the Yes or the No button of Background: the button sets
\* bgd_var, then runs its command
ClickBgd ==
    \E value \in {"Yes", "No"} :
        Handled(_toggle_bgd_notes([Cur EXCEPT !.panel_editor.bgd_var = value],
                                  value = "Yes"))

\* a key released in the background notes entry, which is on screen after
\* _toggle_bgd_notes(True)
TypeBgdNotes ==
    /\ panel_editor.bgd_var = "Yes"
    /\ EditEntry("bgd_notes_var", NotesTexts)

NextNotes ==
    \/ AddPanel(MaxNotesPanels)
    \/ ClickPanel
    \/ ClickBgd
    \/ TypeBgdNotes
    \/ ClickYesNo(NotesBoxes)
    \/ TypeText(NotesBoxes, NotesTexts)
    \/ TimerFires

SpecNotes == InitApp /\ [][NextNotes]_vars

-----------------------------------------------------------------------------
(* Specification TextHeight: one call of PDFPreview._calc_text_height on a *)
(* text of letters and spaces.                                              *)

MaxTextLen == 4           \* longest text
MaxWidth == 3             \* widest max_width
MaxFontSize == 2          \* largest font_size

\* a letter and the space
TextChars == {97, 32}

InitTextHeight ==
    /\ \E text \in SeqsUpTo(TextChars, MaxTextLen) :
          \E max_width \in 0..MaxWidth, font_size \in 0..MaxFontSize :
              calc = [NoCall EXCEPT !.text = text, !.max_width = max_width,
                                    !.font_size = font_size]
    /\ objs = <<>>
    /\ panels = <<>>
    /\ elements = <<>>
    /\ pdf_preview = PreviewInit
    /\ str_hash = <<>>
    /\ pdf_files = NoFiles
    /\ messagebox = None
    /\ InitComponents

\* the call returns or raises
CalcTextHeight ==
    /\ ~calc.returned /\ calc.raised = None
    /\ calc' = IF _calc_text_height_ZeroDivisionError(calc.text, calc.font_size)
               THEN [calc EXCEPT !.raised = "ZeroDivisionError"]
               ELSE [calc EXCEPT !.returned = TRUE,
                                 !.text_height = _calc_text_height(
                                     calc.text, calc.max_width, calc.font_size)]
    /\ UNCHANGED <<objs, panels, elements, pdf_preview, colourVars, messagebox,
                   appVars>>

NextTextHeight == CalcTextHeight

SpecTextHeight == InitTextHeight /\ [][NextTextHeight]_vars

-----------------------------------------------------------------------------
(* What the exported document and the preview hold, for the claims.        *)

\* the positions of the grids in the exported flowables
GridIdx == SelectIdx([i \in 1..Len(elements) |-> elements[i].kind = "Grid"], Len(elements))

\* the panels of a grid, row by row
GridPanels(g) ==
    LET cells == g.rows[1] \o g.rows[2]
        idx   == SelectIdx([c \in 1..Len(cells) |-> cells[c].kind = "Panel"], Len(cells))
    IN  [i \in 1..Len(idx) |-> cells[idx[i]].panel]

\* the exported panels in document order
EmittedPanels == Flatten([k \in 1..Len(GridIdx) |-> GridPanels(elements[GridIdx[k]])])

\* the scene headers in document order
EmittedScenes ==
    LET idx == SelectIdx([i \in 1..Len(elements) |-> elements[i].kind = "SceneHeader"],
                         Len(elements))
    IN  [i \in 1..Len(idx) |-> elements[idx[i]].scene]

\* the page of the i-th flowable: the number of page breaks before it
PageOfElement(i) ==
    Cardinality({j \in 1..(i - 1) : elements[j].kind = "PageBreak"})

\* where the export puts a panel: the set of <<page, row, col>> (0-based)
ExportPlaces(h) ==
    LET gidx == GridIdx
    IN  { <<PageOfElement(gidx[t[1]]), t[2] - 1, t[3] - 1>> :
            t \in { u \in (1..Len(gidx)) \X (1..2) \X (1..3) :
                      LET cell == elements[gidx[u[1]]].rows[u[2]][u[3]]
                      IN  cell.kind = "Panel" /\ cell.panel = h } }

\* where the preview draws a panel, over all its pages
PreviewPlaces(h) ==
    { pl \in (0..(pdf_preview.total_pages - 1)) \X (0..1) \X (0..2) :
        \E it \in Range(_draw_page(objs, pdf_preview.all_panels, pl[1])) :
           it.panel = objs[h].id /\ it.row = pl[2] /\ it.col = pl[3] }

Exported == elements # <<>>

ScenePanelCount(s) == Cardinality({i \in 1..Len(panels) : objs[panels[i]].scene_number = s})

ListPos(h) == CHOOSE i \in 1..Len(panels) : panels[i] = h

\* C5: within a scene the exported panels are in ascending order of shot
\* label (the empty label first), equal labels in storyboard list order.
C5_SortedWithinScene ==
    Exported =>
      LET emitted == EmittedPanels
      IN  \A a, b \in 1..Len(emitted) :
             LET pa == objs[emitted[a]]
                 pb == objs[emitted[b]]
             IN  (a < b /\ pa.scene_number = pb.scene_number) =>
                    /\ ~StrLess(pb.shot_number, pa.shot_number)
                    /\ pa.shot_number = pb.shot_number =>
                          ListPos(emitted[a]) < ListPos(emitted[b])

\* a scene whose list order is B, "", B comes out as "", B, B with the two
\* B panels in list order
C5_Witness ==
    /\ Exported
    /\ Len(panels) = 3
    /\ \A i \in 1..3 : objs[panels[i]].scene_number = Str_2
    /\ objs[panels[1]].shot_number = Str_B
    /\ objs[panels[2]].shot_number = Str_empty
    /\ objs[panels[3]].shot_number = Str_B
    /\ EmittedPanels = <<panels[2], panels[1], panels[3]>>

\* the first list position holding a panel of scene s
FirstAppearance(s) ==
    CHOOSE i \in 1..Len(panels) :
       /\ objs[panels[i]].scene_number = s
       /\ \A j \in 1..(i - 1) : objs[panels[j]].scene_number # s

\* C6: every export of a storyboard emits its scenes in ascending numeric
\* order; labels that are not all digits follow every numeric scene, in
\* order of first appearance.
C6_SceneOrder ==
    /\ messagebox # "Failed to export to PDF"
    /\ Exported =>
         LET scenes == EmittedScenes
         IN
         /\ Range(scenes) = {objs[h].scene_number : h \in Range(panels)}
         /\ \A a, b \in 1..Len(scenes) :
               LET sa == scenes[a]
                   sb == scenes[b]
               IN  a < b =>
                     /\ sa # sb
                     /\ (isdigit(sa) /\ isdigit(sb)) => int(sa) <= int(sb)
                     /\ ~(~isdigit(sa) /\ isdigit(sb))
                     /\ (~isdigit(sa) /\ ~isdigit(sb)) =>
                           FirstAppearance(sa) < FirstAppearance(sb)

\* C2: preview and export place every panel on the same page and in the
\* same grid slot.
C2_SameLayout ==
    (Exported /\ pdf_preview.all_panels = panels) =>
        \A h \in Range(panels) : PreviewPlaces(h) = ExportPlaces(h)

-----------------------------------------------------------------------------
(* Colours, for the claims.                                                *)

\* the panel elements of the exported document
ExportedPanelElements ==
    {c \in UNION {Range(elements[i].rows[1]) \cup Range(elements[i].rows[2]) :
                    i \in Range(GridIdx)} : c.kind = "Panel"}

\* the panel cells of every document the first-generation exporter wrote
LegacyPanelElements ==
    {c \in UNION {UNION {Range(pdf_files[p][i].cells) : i \in 2..Len(pdf_files[p])} :
                    p \in OutputPaths} : c.kind = "Panel"}

\* the canvas items of the preview, each with the handle of the panel whose
\* id it carries
DrawnPanels ==
    {[it EXCEPT !.panel = CHOOSE h \in DOMAIN objs : objs[h].id = it.panel] :
        it \in Range(pdf_preview.canvas)}

\* in the set es of rendered panels, the shot colour depends on the shot
\* letter alone
ShotColourByLetter(es) ==
    \A e1, e2 \in es :
        ShotLetter(objs[e1.panel]) = ShotLetter(objs[e2.panel])
            => e1.shot_color = e2.shot_color

\* in the set es of rendered panels, the camera colour depends on the camera
\* alone
CameraColourByCamera(es) ==
    \A e1, e2 \in es :
        objs[e1.panel].camera = objs[e2.panel].camera
            => e1.camera_color = e2.camera_color

\* C3: in each renderer, two panels with the same first shot letter get the
\* same shot colour and two panels with the same camera get the same camera
\* colour, in every rendering and across runs of the program, fallback keys
\* included.
C3_DeterministicColour ==
    /\ ShotColourByLetter(ExportedPanelElements)
    /\ CameraColourByCamera(ExportedPanelElements)
    /\ ShotColourByLetter(DrawnPanels)
    /\ CameraColourByCamera(DrawnPanels)
    /\ ShotColourByLetter(LegacyPanelElements)

\* C4: the preview draws every panel in the colours the export gives it:
\* the same shot colour and the same camera colour, table keys and fallback
\* keys alike.
C4_SameColours ==
    \A it \in DrawnPanels : \A e \in ExportedPanelElements :
        it.panel = e.panel =>
            /\ TkRGB(it.shot_color) = PdfRGB(e.shot_color)
            /\ TkRGB(it.camera_color) = PdfRGB(e.camera_color)

-----------------------------------------------------------------------------
(* Specification Project: a list built and reordered, saved and opened.    *)

MaxProjectPanels == 2     \* most panels in the list

NextProject ==
    \/ AddPanel(MaxProjectPanels)
    \/ MoveUp
    \/ MoveDown
    \/ OpenProject
    \/ SaveProject
    \/ SaveProjectAs

SpecProject == InitApp /\ [][NextProject]_vars

-----------------------------------------------------------------------------
(* Specification Session: a working session from the start of the          *)
(* application to Exit: panels are added, deleted and selected, and the     *)
(* project is saved, opened and started anew.                               *)

MaxSessionPanels == 2     \* most panels in the list

NextSession ==
    \/ AddPanel(MaxSessionPanels)
    \/ DeletePanel
    \/ ClickPanel
    \/ NewProject
    \/ OpenProject
    \/ SaveProject
    \/ ExitApp

SpecSession == InitApp /\ [][NextSession]_vars

-----------------------------------------------------------------------------
(* Specification SceneSession: the same session with a Scene entry that is *)
(* edited, on a storyboard of at most one panel.                            *)

MaxScenePanels == 1       \* most panels in the list

\* what the Scene entry holds after a key
SessionSceneTexts == {Str_2, Str_sup2}

NextSceneSession ==
    \/ AddPanel(MaxScenePanels)
    \/ DeletePanel
    \/ ClickPanel
    \/ EditEntry("scene_number_var", SessionSceneTexts)
    \/ NewProject
    \/ OpenProject
    \/ SaveProject
    \/ SaveProjectAs
    \/ ExitApp

SpecSceneSession == InitApp /\ [][NextSceneSession]_vars

-----------------------------------------------------------------------------
(* The shot list, for the claims.                                          *)

\* the panels of the storyboard that match the filter the two boxes show
MatchingPanels ==
    FilteredPanels(objs, panels, shot_list.filter_var, shot_list.filter_value_var)

\* C7: after any sequence of panel operations and filter selections, the
\* table of the shot list has one row for each panel of the storyboard that
\* matches the selected filter and no other row, the rows being ordered by
\* scene number as a number, then setup number as a number, then shot label.
C7_TableShowsMatchingPanels ==
    /\ Len(shot_list.table) = Len(MatchingPanels)
    /\ shot_list.table = Rows(objs, MatchingPanels)

-----------------------------------------------------------------------------
(* The editor, for the claims.                                             *)

\* the attributes of a panel that the text boxes edit
TextAttrs == {"description", "notes", "audio_notes", "hair_makeup", "props", "vfx"}

\* C8: an edit typed into a text box is written to the panel that was
\* loaded in the editor when it was typed and to no other panel: while the
\* save of a typed edit is pending, no step changes a text attribute of a
\* panel other than the loaded one, when the step keeps the panels of the
\* list, as the selection of another panel does.
C8_TypedTextGoesToItsPanel ==
    [][ panel_editor._text_change_timer =>
          \A h \in Range(panels) : \A g \in Range(panels') :
              (/\ Len(panels') = Len(panels)
               /\ objs'[g].id = objs[h].id
               /\ h # panel_editor.current_panel)
                  => \A a \in TextAttrs : objs'[g][a] = objs[h][a] ]_vars

-----------------------------------------------------------------------------
(* The project file, for the claims.                                       *)

\* the ids of the panels of the storyboard, by position
ListIds == [i \in 1..Len(panels) |-> objs[panels[i]].id]

\* the ids of the panels in the project file, by position
FileIds(path) ==
    [i \in 1..Len(project_files[path].panels) |->
        python_value(project_files[path].panels[i].id)]

\* the order values of the panels in the project file, by position
FileOrders(path) ==
    [i \in 1..Len(project_files[path].panels) |->
        python_value(project_files[path].panels[i].order)]

\* C9: a saved file holds the panels of the storyboard in list order, each
\* with order = its list index, and opening a file gives the storyboard the
\* panel ids of the file in the positions of the file: saving and then
\* opening restores the same ids in the same positions.  (The second
\* conjunct speaks of a save whose project is still the current one.)
C9_SaveThenOpenRestoresOrder ==
    /\ \A path \in ProjectPaths :
          project_files[path] # NoFile =>
              FileOrders(path) = [i \in 1..Len(project_files[path].panels) |-> i - 1]
    /\ (messagebox = "Project saved successfully" /\ current_project_path # None) =>
          FileIds(current_project_path) = ListIds
    /\ messagebox = "Project loaded successfully" =>
          ListIds = FileIds(current_project_path)

\* a storyboard of two panels, reordered before it was saved, has been
\* opened from its file
C9_Witness ==
    /\ messagebox = "Project loaded successfully"
    /\ Len(panels) = 2
    /\ ListIds[1] > ListIds[2]
    /\ FileIds(current_project_path) = ListIds

-----------------------------------------------------------------------------
(* Serialisation, for the claims.                                          *)

\* the attributes the round trip is to preserve
RoundTripFields ==
    {"id", "order", "shot_number", "scene_number", "description", "notes",
     "camera", "lens", "size", "type", "move", "equip", "action", "bgd",
     "bgd_notes", "hair_makeup", "props", "vfx", "setup_number", "camera_name",
     "shot_time", "audio_notes", "subject"}

\* C10: Panel.from_dict(panel.to_dict()) equals the original panel in id,
\* order and every metadata field.
C10_RoundTrip ==
    Len(objs) = 2 => \A f \in RoundTripFields : objs[2][f] = objs[1][f]

\* a panel with a subject and a non-zero order has been through the round trip
C10_Witness ==
    /\ Len(objs) = 2
    /\ objs[1].subject = "text"
    /\ objs[1].order = 1
    /\ objs[2].subject = "text"
    /\ objs[2].id = 1

-----------------------------------------------------------------------------
(* The text height estimate, for the claims.                              *)

\* C11: _calc_text_height estimates a text of one word as one line, and
\* never estimates more lines than the text has words.
C11_AtMostOneLinePerWord ==
    (calc.returned /\ split(calc.text) # <<>>) =>
        calc.text_height <= Len(split(calc.text)) * (calc.font_size + 2)

-----------------------------------------------------------------------------
(* The editor and the project, for the claims.                             *)

\* the panel of the list after the step that has the id, as a set
After(id) == {objs'[g] : g \in {h \in Range(panels') : objs'[h].id = id}}

\* C12: a click on a panel of the list, which loads it into the editor,
\* changes no metadata field of that panel, whatever panel the editor showed
\* before.
C12_LoadChangesNoField ==
    [][ \A index \in 0..(Len(panels) - 1) :
          (/\ Handled(_on_panel_click(Cur, index))
           /\ panel_editor.current_panel # panels[index + 1])
              => \A p \in After(objs[panels[index + 1]].id) :
                    \A f \in RoundTripFields : p[f] = objs[panels[index + 1]][f] ]_vars

\* the step is one of New Project, Open Project and Exit
NewOpenOrExit == NewProject \/ OpenProject \/ ExitApp

\* C13: when the project has unsaved changes, New Project, Open Project and
\* Exit ask whether to save before they discard the panels or quit.
C13_UnsavedChangesAreAskedAbout ==
    [][ (modified /\ NewOpenOrExit) => asked' ]_vars

\* C14: right after a successful Open Project modified is false, and a
\* click on a panel of an unmodified project leaves modified false.
C14_OpenAndSelectDoNotModify ==
    /\ [](messagebox = "Project loaded successfully" => ~modified)
    /\ [][ (~modified /\ ClickPanel) => ~modified' ]_vars

\* the step adds a panel, deletes one, or is a key in the Scene entry while
\* the editor shows a panel
ListOrFieldEdit ==
    \/ AddPanel(MaxScenePanels)
    \/ DeletePanel /\ Len(panels') < Len(panels)
    \/ EditEntry("scene_number_var", SessionSceneTexts)
          /\ panel_editor.current_panel # NoPanel

\* the step is a successful save, a successful Open Project, or a New
\* Project that went on
SavedNewOrOpened ==
    \/ messagebox' \in {"Project saved successfully", "Project loaded successfully"}
    \/ NewProject /\ current_project_path' = None

\* C15: Add Panel, Delete Panel and a field edit set modified, and modified
\* becomes false only through a successful Save, New Project or Open Project.
C15_ModifiedFollowsEdits ==
    [][ /\ ListOrFieldEdit => modified'
        /\ (modified /\ ~modified') => SavedNewOrOpened ]_vars

\* the answer to the question is Cancel, or it is Yes and the save that
\* follows is cancelled in its dialog or fails
Declined(response, save) ==
    \/ response = "cancel"
    \/ /\ response = "yes"
       /\ \/ save[2] # "ok"
          \/ current_project_path = None /\ save[1] = ""

\* C16: when the question about unsaved changes is answered with Cancel, or
\* with Yes and the save is cancelled or fails, New Project, Open Project
\* and Exit leave the panel list as it is, modified true, and do not quit.
C16_DeclinedQuestionStops ==
    [][ \A response \in Answers : \A save \in SaveInputsAfter(response) :
          (/\ Declined(response, save)
           /\ \/ Handled(_new_project(Cur, response, save[1], save[2]))
              \/ \E open_path \in DialogPaths :
                    Handled(_open_project(Cur, response, save[1], save[2], open_path))
              \/ Handled(_exit_app(Cur, response, save[1], save[2])))
              => (ListIds' = ListIds /\ modified' /\ running') ]_vars

\* the question was asked, the save that the answer Yes set off has failed,
\* and the storyboard is still there
C16_Witness ==
    /\ asked
    /\ messagebox = "Failed to save project"
    /\ panels # <<>>
    /\ modified
    /\ running

\* C17: a Save Project or Save Project As that fails reports the error and
\* leaves current_project_path and modified as they were.
C17_FailedSaveChangesNothing ==
    [][ ((SaveProject \/ SaveProjectAs) /\ messagebox' = "Failed to save project")
          => (/\ current_project_path' = current_project_path
              /\ modified' = modified) ]_vars

\* C18: an Open Project that saves nothing first and fails reports the error
\* and leaves the open project as it was: the panels, current_project_path and modified are
\* unchanged and the panel list widget shows the panels the application holds.
C18_FailedOpenChangesNothing ==
    [][ \A open_path \in DialogPaths :
          (/\ Handled(_open_project(Cur, "no", "", "ok", open_path))
           /\ messagebox' = "Failed to open project")
          => (/\ ListIds' = ListIds
              /\ current_project_path' = current_project_path
              /\ modified' = modified
              /\ panels_list'.panels = panels') ]_vars

\* C19: after any sequence of list operations, selections, New Project and
\* Open Project the selected index is at least -1 and less than the number of
\* panels, and it is -1 whenever the storyboard is empty.
C19_SelectedIndexInRange ==
    /\ -1 <= panels_list.selected_index
    /\ panels_list.selected_index < Len(panels)
    /\ panels = <<>> => panels_list.selected_index = -1

\* the notes fields of a panel that belong to a box that is not shown are
\* empty
HiddenNotesEmpty(p) ==
    /\ p.bgd # "Yes" => p.bgd_notes = ""
    /\ p.hair_makeup_enabled # "Yes" => p.hair_makeup = ""
    /\ p.props_enabled # "Yes" => p.props = ""
    /\ p.vfx_enabled # "Yes" => p.vfx = ""

\* C20: after any auto-save the notes field of every box that is hidden is
\* empty in the panel saved, the panel the editor holds: bgd_notes unless bgd
\* is 'Yes', and hair_makeup, props and vfx unless their enabled flag is 'Yes'.
C20_HiddenNotesAreEmpty ==
    \A h \in Range(panels) : HiddenNotesEmpty(objs[h])

\* a text was typed into a notes box and the boxes are hidden now, the timer
\* of the text still pending: the panel in the editor has been saved with
\* its boxes hidden, and a panel holds background notes that were typed
C20_Witness ==
    /\ panel_editor.current_panel # NoPanel
    /\ panel_editor._text_change_timer
    /\ panel_editor.hair_makeup_enabled_var = "No"
    /\ panel_editor.vfx_enabled_var = "No"
    /\ objs[panel_editor.current_panel].hair_makeup_enabled = "No"
    /\ objs[panel_editor.current_panel].hair_makeup = ""
    /\ objs[panel_editor.current_panel].bgd = "No"
    /\ \E g \in Range(panels) : objs[g].bgd_notes = "x"

=========================================================================
